---- MODULE Spec2Model ----
(***************************************************************************)
(* Model of the console arcade hub of git.py: the persistent leaderboard   *)
(* and achievement ledger (read_save, write_save, ensure_player,           *)
(* award_achievement, add_leaderboard_entry), the seven play_* handlers,   *)
(* the session tracker and the main menu.                                  *)
(*                                                                         *)
(* Conventions.  Times are integers in milliseconds (the code holds float  *)
(* seconds).  A Python dict is a TLA+ function whose DOMAIN is the set of  *)
(* keys present.  A dict key that may be an int or a str is the record     *)
(* [t |-> "int" or "str", v |-> its decimal text].  A sort key (the tuple  *)
(* or number a sort_fn returns) is a sequence of integers, compared in     *)
(* lexicographic order as Python compares tuples.                          *)
(***************************************************************************)
EXTENDS Integers, Sequences, FiniteSets, TLC

VARIABLES
    data,      \* the in-memory ledger handle of main_menu
    file,      \* the backing document highscores.json
    session,   \* the SessionTracker object
    pc,        \* position of the process: "boot", "menu", "exited", "crashed"
    now,       \* logical clock: the number of plays begun; now_ts() reads it
    notes,     \* the "Achievement unlocked" lines printed, as <<player, key>>
    disk,      \* environment: "ok", or "failing" when open(..., "w") raises
    last,      \* history variable: the inputs of the operation just completed
    calls,     \* history variable: the number of add_leaderboard_entry calls
               \* made so far on each <<game, mode>>
    played,    \* history variable: the number of plays each player completed
    run        \* history variable: the plays completed in this process run

vars ==
    <<data, file, session, pc, now, notes, disk, last, calls, played, run>>

----------------------------------------------------------------------------
(* Bounds of the model *)

\* Plays explored by Spec.
MaxPlays == 2

\* Plays explored by SpecBoard.
MaxInserts == 3

\* Plays explored by SpecFull.
MaxFull == 2

\* Ledger operations explored by SpecLedger.
MaxOps == 3

\* Plays explored by SpecStreak: the longest streak the code rewards.
MaxStreak == 5

(* Program constants *)

TOP_N == 100

----------------------------------------------------------------------------
(* Python values *)

GAME_KEYS ==
    {"guess_the_number", "reaction_game", "gibberish_typing", "number_memory",
     "sequence_tap", "word_memory", "math_speed"}

EmptyDict == <<>>

IntKey(text) == [t |-> "int", v |-> text]
StrKey(text) == [t |-> "str", v |-> text]

\* str(mode_key): an int becomes its decimal text, a str is itself.
Str(k) == [t |-> "str", v |-> k.v]

\* dict.setdefault(k, default), as the dict it leaves behind.
SetDefault(d, k, default) ==
    IF k \in DOMAIN d THEN d
    ELSE [x \in DOMAIN d \cup {k} |-> IF x = k THEN default ELSE d[x]]

\* d[k] = v
SetItem(d, k, v) ==
    [x \in DOMAIN d \cup {k} |-> IF x = k THEN v ELSE d[x]]

\* d.get(k, default)
Get(d, k, default) == IF k \in DOMAIN d THEN d[k] ELSE default

InList(x, s) == \E i \in 1..Len(s) : s[i] = x

Min(a, b) == IF a <= b THEN a ELSE b

RECURSIVE SumSeq(_)
SumSeq(s) == IF s = <<>> THEN 0 ELSE Head(s) + SumSeq(Tail(s))

\* Python's < on two tuples of numbers of the same length.
RECURSIVE KeyLess(_, _)
KeyLess(a, b) ==
    IF a = <<>> \/ b = <<>> THEN a = <<>> /\ b # <<>>
    ELSE IF Head(a) # Head(b) THEN Head(a) < Head(b)
    ELSE KeyLess(Tail(a), Tail(b))

----------------------------------------------------------------------------
(* The sort_fn lambdas of the play handlers *)

\* Mutant of gtn_sort_fn: lambda r: r["attempts"], without the tie-break.
gtn_sort_fn_attempts_only(r) == <<r.attempts>>

gtn_sort_fn(r) == <<r.attempts, r.time>>
total_time_sort_fn(r) == <<r.total_time>>
nm_sort_fn(r) == <<-r.max_length, r.total_time>>
wm_sort_fn(r) == <<-r.correct, r.total_time>>

\* The lambda each game passes as sort_fn, named by the game's key.
sort_key(game_key, r) ==
    CASE game_key = "guess_the_number" -> gtn_sort_fn(r)
      [] game_key = "number_memory" -> nm_sort_fn(r)
      [] game_key = "word_memory" -> wm_sort_fn(r)
      [] OTHER -> total_time_sort_fn(r)

\* list.sort(key=...): the elements in non-decreasing order of their keys,
\* elements of equal keys in the order they had (the sort is stable).  The
\* element at index i goes to the place after the elements of smaller keys
\* and the earlier elements of equal keys.
ListSort(lb, game_key) ==
    LET n == Len(lb)
        keys == {<<i, sort_key(game_key, lb[i])>> : i \in 1..n}
        places ==
            {<<1 + Cardinality({k \in keys :
                      \/ KeyLess(k[2], ki[2])
                      \/ k[1] < ki[1] /\ ~KeyLess(ki[2], k[2])}), ki[1]>> :
                ki \in keys}
    IN [p \in 1..n |-> lb[(CHOOSE pl \in places : pl[1] = p)[2]]]

\* Mutant of Slice: lb[:top_n + 1].
Slice_one_more(lb, top_n) == SubSeq(lb, 1, Min(top_n + 1, Len(lb)))

\* Mutant of Slice: lb[-top_n:], the last top_n elements.
Slice_tail(lb, top_n) ==
    SubSeq(lb, IF Len(lb) > top_n THEN Len(lb) - top_n + 1 ELSE 1, Len(lb))

\* lb[:top_n]
Slice(lb, top_n) == SubSeq(lb, 1, Min(top_n, Len(lb)))

----------------------------------------------------------------------------
(* The backing document.  kind is "missing" (no file), "unparseable"        *)
(* (json.load raises), "other" (valid JSON that is not an object) or        *)
(* "object"; has lists the members present among "leaderboards" and         *)
(* "players"; lbtype is "other" when the "leaderboards" member is not an    *)
(* object.  Members that are absent are held as empty dicts.                *)

Document(kind, has, lbtype, lbs, pls) ==
    [kind |-> kind, has |-> has, lbtype |-> lbtype,
     leaderboards |-> lbs, players |-> pls]

MissingFile == Document("missing", {}, "dict", EmptyDict, EmptyDict)

BASE_SAVE ==
    [leaderboards |-> [g \in GAME_KEYS |-> EmptyDict], players |-> EmptyDict]

\* JSON object members are named by strings: json.dump writes an int key as
\* its decimal text.  The ledgers the code builds hold str keys only, so no
\* two keys of one dict share a text.
JsonObject(d) ==
    [k \in {Str(x) : x \in DOMAIN d} |->
        d[CHOOSE x \in DOMAIN d : Str(x) = k]]

\* json.dump(d, f, indent=2) followed by json.load(f) of the text written.
JsonDump(d) ==
    Document("object", {"leaderboards", "players"}, "dict",
             [g \in DOMAIN d.leaderboards |-> JsonObject(d.leaderboards[g])],
             d.players)

\* The ledger operations pass along st = [data, file, notes, raised]:
\* the ledger handle, the backing document, the lines printed, and whether
\* an exception is propagating (every later statement is then skipped).
State(d, f, n) == [data |-> d, file |-> f, notes |-> n, raised |-> FALSE]

Raise(st) == [st EXCEPT !.raised = TRUE]

write_save(st, d) ==
    IF st.raised THEN st
    ELSE IF disk = "failing" THEN Raise(st)
    ELSE [st EXCEPT !.file = JsonDump(d)]

\* Lines 66-71 of read_save: the setdefault calls on the parsed document.
EnsureKeys(doc) ==
    LET lbs == IF "leaderboards" \in doc.has THEN doc.leaderboards
               ELSE EmptyDict
    IN [leaderboards |->
            [g \in DOMAIN lbs \cup GAME_KEYS |-> Get(lbs, g, EmptyDict)],
        players |->
            IF "players" \in doc.has THEN doc.players ELSE EmptyDict]

\* read_save(), as the state it leaves with data set to the value returned.
read_save(st) ==
    IF st.raised THEN st
    ELSE IF st.file.kind = "missing" THEN
        LET s1 == write_save(st, BASE_SAVE)
        IN IF s1.raised THEN s1 ELSE [s1 EXCEPT !.data = BASE_SAVE]
    ELSE IF st.file.kind = "unparseable" THEN
        [st EXCEPT !.data = EnsureKeys(JsonDump(BASE_SAVE))]
    ELSE IF st.file.kind = "other" THEN Raise(st)
    ELSE IF "leaderboards" \in st.file.has /\ st.file.lbtype = "other" THEN
        Raise(st)
    ELSE [st EXCEPT !.data = EnsureKeys(st.file)]

NewPlayer == [achievements |-> <<>>, games_played |-> 0]

\* Mutant of ensure_player: the record is assigned whether or not it exists.
ensure_player_reset(st, name) ==
    IF st.raised THEN st
    ELSE [st EXCEPT !.data.players = SetItem(@, name, NewPlayer)]

ensure_player(st, name) ==
    IF st.raised THEN st
    ELSE [st EXCEPT !.data.players = SetDefault(@, name, NewPlayer)]

\* Mutant of award_achievement: no test that the key is already held.
award_achievement_always(st, player, ach_key) ==
    LET s1 == ensure_player(st, player)
    IN IF s1.raised THEN s1
       ELSE LET s2 == [s1 EXCEPT
                          !.data.players[player].achievements =
                              Append(@, ach_key),
                          !.notes = Append(@, <<player, ach_key>>)]
            IN write_save(s2, s2.data)

award_achievement(st, player, ach_key) ==
    LET s1 == ensure_player(st, player)
    IN IF s1.raised THEN s1
       ELSE IF InList(ach_key, s1.data.players[player].achievements) THEN s1
       ELSE LET s2 == [s1 EXCEPT
                          !.data.players[player].achievements =
                              Append(@, ach_key),
                          !.notes = Append(@, <<player, ach_key>>)]
            IN write_save(s2, s2.data)

\* Mutant of add_leaderboard_entry: the board is keyed by mode_key as given,
\* not by str(mode_key).
add_leaderboard_entry_raw_key(st, game_key, mode_key, entry, top_n) ==
    IF st.raised THEN st
    ELSE LET lbs == Get(st.data.leaderboards, game_key, EmptyDict)
             lb == Append(Get(lbs, mode_key, <<>>), entry)
             lbs2 == SetItem(lbs, mode_key,
                             Slice(ListSort(lb, game_key), top_n))
             s1 == [st EXCEPT
                       !.data.leaderboards = SetItem(@, game_key, lbs2)]
         IN write_save(s1, s1.data)

\* add_leaderboard_entry; the sort_fn argument is the lambda that
\* sort_key gives for game_key.
add_leaderboard_entry(st, game_key, mode_key, entry, top_n) ==
    IF st.raised THEN st
    ELSE LET lbs == Get(st.data.leaderboards, game_key, EmptyDict)
             lb == Append(Get(lbs, Str(mode_key), <<>>), entry)
             lbs2 == SetItem(lbs, Str(mode_key),
                             Slice(ListSort(lb, game_key), top_n))
             s1 == [st EXCEPT
                       !.data.leaderboards = SetItem(@, game_key, lbs2)]
         IN write_save(s1, s1.data)

----------------------------------------------------------------------------
(* Console input and the session tracker *)

\* input("Enter your name: ").strip() or "Player", on the names typed.
PlayerName(raw) ==
    CASE raw = "" -> "Player"
      [] raw = "Ann " -> "Ann"
      [] OTHER -> raw

Digit(d) ==
    CASE d = 0 -> "0" [] d = 1 -> "1" [] d = 2 -> "2" [] d = 3 -> "3"
      [] d = 4 -> "4" [] d = 5 -> "5" [] d = 6 -> "6" [] d = 7 -> "7"
      [] d = 8 -> "8" [] d = 9 -> "9"

\* The decimal text of a natural number.
RECURSIVE Dec(_)
Dec(n) == IF n < 10 THEN Digit(n) ELSE Dec(n \div 10) \o Digit(n % 10)

\* SessionTracker(player=None); None is held as "", which is no player name.
SessionTracker ==
    [player |-> "", games_this_session |-> {}, consecutive_gtn_wins |-> 0,
     perfect_gibberish_streak |-> 0, total_games_played |-> 0]

NoEntry == [name |-> ""]

\* The history record of an operation: which handler ran, for whom, on which
\* (game, mode), the entry it built (NoEntry when it built none) and whether
\* what was typed equals what was expected.
Last(op, player, game, mode, entry, match) ==
    [op |-> op, player |-> player, game |-> game, mode |-> mode,
     entry |-> entry, match |-> match, key |-> ""]

\* The history record of a direct call of award_achievement.
LastAward(player, ach_key) ==
    [Last("award", player, "", StrKey(""), NoEntry, TRUE) EXCEPT
        !.key = ach_key]

\* The handlers that are plays of a game.
PlayOps ==
    {"guess", "reaction", "gibberish", "number_memory", "sequence_tap",
     "word_memory", "math_speed"}

\* The history of a process run: the players of the Guess the Number wins,
\* in order; the players of the perfect Gibberish runs made since the last
\* run that was not perfect, in order; the number of plays completed and
\* the games played.
NewRun == [wins |-> <<>>, perfects |-> <<>>, plays |-> 0, games |-> {}]

RunAfter(rec) ==
    [wins |-> IF rec.op = "guess" THEN Append(run.wins, rec.player)
              ELSE run.wins,
     perfects |-> IF rec.op # "gibberish" THEN run.perfects
                  ELSE IF rec.match THEN Append(run.perfects, rec.player)
                  ELSE <<>>,
     plays |-> IF rec.op \in PlayOps THEN run.plays + 1 ELSE run.plays,
     games |-> IF rec.op \in PlayOps THEN run.games \cup {rec.op}
               ELSE run.games]

\* calls after one more call on board b.
Count(c, b) == SetItem(c, b, Get(c, b, 0) + 1)

\* The end of a handler: back in the menu loop, or out of the process when
\* an exception went unhandled.
Finish(st, sess, rec) ==
    /\ data' = st.data
    /\ file' = st.file
    /\ notes' = st.notes
    /\ session' = sess
    /\ pc' = IF st.raised THEN "crashed" ELSE "menu"
    /\ now' = now + 1
    /\ last' = rec
    /\ calls' = IF rec.entry = NoEntry THEN calls
                ELSE Count(calls, <<rec.game, rec.mode>>)
    /\ played' = IF rec.op \in PlayOps /\ ~st.raised
                 THEN Count(played, rec.player) ELSE played
    /\ run' = IF st.raised THEN run ELSE RunAfter(rec)
    /\ UNCHANGED disk

Award(cond, st, player, ach_key) ==
    IF cond THEN award_achievement(st, player, ach_key) ELSE st

----------------------------------------------------------------------------
(* Guess the Number *)

play_guess_the_number(raw, mode_key, attempts, elapsed) ==
    LET player == PlayerName(raw)
        s0 == ensure_player(State(data, file, notes), player)
        s1 == Award(attempts = 1, s0, player, "gtn_first_try")
        s2 == Award(elapsed < 5000, s1, player, "gtn_speed_demon")
        s3 == Award(attempts < 3, s2, player, "gtn_sniper")
        s4 == Award(attempts >= 20, s3, player, "gtn_persistent")
        s5 == Award(mode_key = StrKey("7"), s4, player, "gtn_nightmare")
        sess == [session EXCEPT
                    !.player = player,
                    !.games_this_session = @ \cup {"guess"},
                    !.total_games_played = @ + 1,
                    !.consecutive_gtn_wins = @ + 1]
        s6 == Award(sess.consecutive_gtn_wins >= 5, s5, player,
                    "gtn_iron_streak_5")
        entry == [name |-> player, attempts |-> attempts, time |-> elapsed,
                  ts |-> now]
        s7 == add_leaderboard_entry(s6, "guess_the_number", mode_key, entry, TOP_N)
    IN Finish(s7, sess,
              Last("guess", player, "guess_the_number", Str(mode_key), entry,
                   TRUE))

----------------------------------------------------------------------------
(* Reaction Game *)

play_reaction(raw, rounds, per_round) ==
    LET player == PlayerName(raw)
        s0 == ensure_player(State(data, file, notes), player)
        total == SumSeq(per_round)
        any_below_200 == \E r \in 1..rounds : per_round[r] < 200
        all_below_500 == \A r \in 1..rounds : ~(per_round[r] >= 500)
        s1 == Award(any_below_200, s0, player, "rx_lightning")
        s2 == Award(all_below_500, s1, player, "rx_consistent")
        s3 == Award(rounds = 25, s2, player, "rx_marathon")
        sess == [session EXCEPT
                    !.player = player,
                    !.games_this_session = @ \cup {"reaction"},
                    !.total_games_played = @ + 1]
        entry == [name |-> player, total_time |-> total,
                  per_round |-> per_round, ts |-> now]
        s4 == add_leaderboard_entry(s3, "reaction_game",
                                    Str(IntKey(Dec(rounds))), entry, TOP_N)
    IN Finish(s4, sess,
              Last("reaction", player, "reaction_game", StrKey(Dec(rounds)),
                   entry, TRUE))

----------------------------------------------------------------------------
(* Gibberish Typing *)

\* Mutant of IsPerfect: only the number of tokens is compared.
IsPerfect_same_length(typed_tokens, targets) ==
    Len(typed_tokens) = Len(targets)

\* perfect = (typed_tokens == targets)
IsPerfect(typed_tokens, targets) == typed_tokens = targets

\* Mutant of ResetStreak: a run that is not perfect keeps the streak.
ResetStreak_kept(streak) == streak

\* session.perfect_gibberish_streak = 0
ResetStreak(streak) == 0

play_gibberish(raw, words, targets, typed_tokens, elapsed) ==
    LET player == PlayerName(raw)
        s0 == ensure_player(State(data, file, notes), player)
        perfect == IsPerfect(typed_tokens, targets)
        sess0 == [session EXCEPT
                     !.player = player,
                     !.games_this_session = @ \cup {"gibberish"},
                     !.total_games_played = @ + 1]
        \* avg = elapsed / max(1, words); avg < 1.0
        avg_below_1 == elapsed < 1000 * (IF words >= 1 THEN words ELSE 1)
        s1 == award_achievement(s0, player, "gt_perfect_accuracy")
        s2 == Award(avg_below_1, s1, player, "gt_typing_machine")
        sessP == [sess0 EXCEPT !.perfect_gibberish_streak = @ + 1]
        s3 == Award(sessP.perfect_gibberish_streak >= 3, s2, player,
                    "gt_flawless_streak3")
        entry == [name |-> player, total_time |-> elapsed, words |-> words,
                  ts |-> now]
        s4 == add_leaderboard_entry(s3, "gibberish_typing",
                                    Str(IntKey(Dec(words))), entry, TOP_N)
        sessF == [sess0 EXCEPT !.perfect_gibberish_streak = ResetStreak(@)]
    IN IF perfect
       THEN Finish(s4, sessP,
                   Last("gibberish", player, "gibberish_typing",
                        StrKey(Dec(words)), entry, typed_tokens = targets))
       ELSE Finish(s0, sessF,
                   Last("gibberish", player, "gibberish_typing",
                        StrKey(Dec(words)), NoEntry, typed_tokens = targets))

----------------------------------------------------------------------------
(* Number Memory *)

NM_MODES == {"easy_2", "normal_4", "hard_6"}

StartLen(mode_choice) ==
    IF mode_choice = "easy_2" THEN 2
    ELSE IF mode_choice = "normal_4" THEN 4 ELSE 6

\* The rounds answered correctly, round_no = i..k: each raises max_len by
\* one and checks the two achievements against the new max_len.
RECURSIVE CorrectRounds(_, _, _, _, _)
CorrectRounds(st, player, start_len, i, k) ==
    IF i > k THEN st
    ELSE LET max_len == start_len + i
             s1 == Award(max_len - 1 >= 10, st, player, "nm_brain_of_steel")
             s2 == Award(i >= 5, s1, player, "nm_flash_recall")
         IN CorrectRounds(s2, player, start_len, i + 1, k)

\* k rounds are answered correctly and round k + 1 is failed.
play_number_memory(raw, mode_choice, k, total_time) ==
    LET player == PlayerName(raw)
        s0 == ensure_player(State(data, file, notes), player)
        start_len == StartLen(mode_choice)
        s1 == CorrectRounds(s0, player, start_len, 1, k)
        sess == [session EXCEPT
                    !.player = player,
                    !.total_games_played = @ + k]
        max_len == start_len + k
        achieved == max_len - 1
        entry == [name |-> player, max_length |-> achieved,
                  total_time |-> total_time, ts |-> now]
        s2 == add_leaderboard_entry(s1, "number_memory", StrKey(mode_choice),
                                    entry, TOP_N)
    IN Finish(s2, sess,
              Last("number_memory", player, "number_memory",
                   StrKey(mode_choice), entry, TRUE))

----------------------------------------------------------------------------
(* Sequence Tap *)

\* input("Your input: ").strip().upper(), on the texts typed.
Upper(raw) ==
    CASE raw = "abcde" -> "ABCDE"
      [] raw = "abcdx" -> "ABCDX"
      [] raw = "abcdefghijklmnopqrst" -> "ABCDEFGHIJKLMNOPQRST"
      [] OTHER -> raw

\* correct = typed == expected
IsCorrect(typed, expected) == typed = expected

play_sequence_tap(raw, steps, expected, raw_typed, elapsed) ==
    LET player == PlayerName(raw)
        s0 == ensure_player(State(data, file, notes), player)
        typed == Upper(raw_typed)
        correct == IsCorrect(typed, expected)
        s1 == Award(steps = 20, s0, player, "st_pattern_pro")
        entry == [name |-> player, total_time |-> elapsed, ts |-> now]
        s2 == add_leaderboard_entry(s1, "sequence_tap",
                                    Str(IntKey(Dec(steps))), entry, TOP_N)
        sess == [session EXCEPT
                    !.player = player,
                    !.total_games_played = @ + 1]
    IN IF correct
       THEN Finish(s2, sess,
                   Last("sequence_tap", player, "sequence_tap",
                        StrKey(Dec(steps)), entry, typed = expected))
       ELSE Finish(s0, sess,
                   Last("sequence_tap", player, "sequence_tap",
                        StrKey(Dec(steps)), NoEntry, typed = expected))

----------------------------------------------------------------------------
(* Word Memory Chain *)

\* sum(1 for a, b in zip(words, typed) if a == b)
CorrectCount(words, typed) ==
    Cardinality({i \in 1..Min(Len(words), Len(typed)) : words[i] = typed[i]})

play_word_memory(raw, words_count, words, typed, elapsed) ==
    LET player == PlayerName(raw)
        s0 == ensure_player(State(data, file, notes), player)
        correct_count == CorrectCount(words, typed)
        sess == [session EXCEPT
                    !.player = player,
                    !.total_games_played = @ + 1]
        s1 == Award(correct_count = words_count /\ words_count >= 15, s0,
                    player, "wm_word_wizard")
        entry == [name |-> player, correct |-> correct_count,
                  total_time |-> elapsed, ts |-> now]
        s2 == add_leaderboard_entry(s1, "word_memory",
                                    Str(IntKey(Dec(words_count))), entry, TOP_N)
    IN Finish(s2, sess,
              Last("word_memory", player, "word_memory",
                   StrKey(Dec(words_count)), entry, words = typed))

----------------------------------------------------------------------------
(* Math Speed Run *)

play_math_speed(raw, problems, elapsed) ==
    LET player == PlayerName(raw)
        s0 == ensure_player(State(data, file, notes), player)
        s1 == Award(problems >= 20 /\ elapsed < 30000, s0, player,
                    "ms_lightning_calc")
        s2 == Award(problems = 50, s1, player, "ms_math_genius")
        sess == [session EXCEPT
                    !.player = player,
                    !.total_games_played = @ + 1]
        entry == [name |-> player, total_time |-> elapsed,
                  problems |-> problems, ts |-> now]
        s3 == add_leaderboard_entry(s2, "math_speed",
                                    Str(IntKey(Dec(problems))), entry, TOP_N)
    IN Finish(s3, sess,
              Last("math_speed", player, "math_speed", StrKey(Dec(problems)),
                   entry, TRUE))

----------------------------------------------------------------------------
(* The process: the __main__ block, main_menu and its menu choices *)

\* A document written by an earlier version: one game, no "players" member.
LegacyDoc ==
    Document("object", {"leaderboards"}, "dict",
             [g \in {"sequence_tap"} |->
                 [m \in {StrKey("5")} |->
                     <<[name |-> "Ann", total_time |-> 3000, ts |-> 0]>>]],
             EmptyDict)

\* The calls that built the boards of a ledger none of whose boards has been
\* truncated: as many as the board holds entries.
Lengths(lbs) ==
    [b \in UNION {{<<g, m>> : m \in DOMAIN lbs[g]} : g \in DOMAIN lbs} |->
        Len(lbs[b[1]][b[2]])]

NoLast == Last("none", "", "", StrKey(""), NoEntry, TRUE)

Init ==
    /\ file \in {MissingFile, LegacyDoc}
    /\ data = BASE_SAVE
    /\ session = SessionTracker
    /\ pc = "boot"
    /\ now = 1
    /\ notes = <<>>
    /\ disk = "ok"
    /\ last = NoLast
    /\ calls = Lengths(file.leaderboards)
    /\ played = EmptyDict
    /\ run = NewRun

\* __main__ writes BASE_SAVE when no file exists, then main_menu() loads the
\* ledger and creates the session tracker.  A process that has ended may be
\* started again.
Boot ==
    /\ pc \in {"boot", "exited"}
    /\ LET s0 == State(data, file, notes)
           s1 == IF file.kind = "missing" THEN write_save(s0, BASE_SAVE)
                 ELSE s0
           s2 == read_save(s1)
       IN /\ file' = s2.file
          /\ data' = IF s2.raised THEN BASE_SAVE ELSE s2.data
          /\ pc' = IF s2.raised THEN "crashed" ELSE "menu"
    /\ session' = SessionTracker
    /\ last' = Last("boot", "", "", StrKey(""), NoEntry, TRUE)
    /\ run' = NewRun
    /\ UNCHANGED <<now, notes, disk, calls, played>>

RawNames == {"", "Ann "}

GibTargets(words) == [i \in 1..words |-> "zaqi"]

GibTyped(words) ==
    {GibTargets(words),
     [GibTargets(words) EXCEPT ![words] = "zaqx"],
     SubSeq(GibTargets(words), 1, words - 1)}

SeqExpected(steps) == IF steps = 5 THEN "ABCDE" ELSE "ABCDEFGHIJKLMNOPQRST"

SeqTyped(steps) ==
    IF steps = 5 THEN {"abcde", "abcdx"}
    ELSE {"abcdefghijklmnopqrst", "ABCDE"}

WmWords(n) == [i \in 1..n |-> Dec(i)]

WmTyped(n) == {WmWords(n), [WmWords(n) EXCEPT ![1] = "x"]}

PlayGuess ==
    /\ pc = "menu" /\ now <= MaxPlays
    /\ \E raw \in RawNames, mode_key \in {StrKey("7")},
          attempts \in {1, 20}, elapsed \in {4000, 8000} :
          play_guess_the_number(raw, mode_key, attempts, elapsed)

PlayReaction ==
    /\ pc = "menu" /\ now <= MaxPlays
    /\ \E raw \in RawNames, rounds \in {25}, a \in {150, 600} :
          play_reaction(raw, rounds,
                        [i \in 1..rounds |-> IF i = 1 THEN a ELSE 300])

PlayGibberish ==
    /\ pc = "menu" /\ now <= MaxPlays
    /\ \E raw \in RawNames, words \in {5}, elapsed \in {4000} :
          \E typed_tokens \in GibTyped(words) :
             play_gibberish(raw, words, GibTargets(words), typed_tokens,
                            elapsed)

PlayNumberMemory ==
    /\ pc = "menu" /\ now <= MaxPlays
    /\ \E raw \in RawNames, mode_choice \in {"hard_6"}, k \in {0, 5},
          total_time \in {7000} :
          play_number_memory(raw, mode_choice, k, total_time)

PlaySequenceTap ==
    /\ pc = "menu" /\ now <= MaxPlays
    /\ \E raw \in RawNames, steps \in {20}, elapsed \in {2000} :
          \E raw_typed \in SeqTyped(steps) :
             play_sequence_tap(raw, steps, SeqExpected(steps), raw_typed,
                               elapsed)

PlayWordMemory ==
    /\ pc = "menu" /\ now <= MaxPlays
    /\ \E raw \in RawNames, words_count \in {15}, elapsed \in {6000} :
          \E typed \in WmTyped(words_count) :
             play_word_memory(raw, words_count, WmWords(words_count),
                              typed, elapsed)

PlayMathSpeed ==
    /\ pc = "menu" /\ now <= MaxPlays
    /\ \E raw \in RawNames, problems \in {20, 50}, elapsed \in {25000} :
          play_math_speed(raw, problems, elapsed)

\* Menu choices 8 and 9: every view shows read_save(), a fresh load of the
\* backing document, and changes nothing the process holds.
View ==
    /\ pc = "menu"
    /\ LET s == read_save(State(data, file, notes))
       IN /\ file' = s.file
          /\ pc' = IF s.raised THEN "crashed" ELSE "menu"
    /\ UNCHANGED <<data, session, now, notes, disk, last, calls, played, run>>

\* Menu choice 0: write_save(data); sys.exit(0).
Exit ==
    /\ pc = "menu"
    /\ LET s == write_save(State(data, file, notes), data)
       IN /\ file' = s.file
          /\ pc' = IF s.raised THEN "crashed" ELSE "exited"
    /\ last' = Last("exit", "", "", StrKey(""), NoEntry, TRUE)
    /\ UNCHANGED <<data, session, now, notes, disk, calls, played, run>>

Next ==
    \/ Boot
    \/ PlayGuess
    \/ PlayReaction
    \/ PlayGibberish
    \/ PlayNumberMemory
    \/ PlaySequenceTap
    \/ PlayWordMemory
    \/ PlayMathSpeed
    \/ View
    \/ Exit

Spec == Init /\ [][Next]_vars

----------------------------------------------------------------------------------------------------------------------------------------------
(* SpecBoard: plays of four games, starting from the empty ledger.          *)

InitLedger(d) ==
    /\ data = d
    /\ file = JsonDump(d)
    /\ session = SessionTracker
    /\ pc = "menu"
    /\ now = 1
    /\ notes = <<>>
    /\ disk = "ok"
    /\ last = NoLast
    /\ calls = Lengths(d.leaderboards)
    /\ played = EmptyDict
    /\ run = NewRun

InitBoard == InitLedger(BASE_SAVE)

GuessScores == {<<3, 10000>>, <<1, 8000>>, <<3, 5000>>}

NumberMemoryScores == {<<2, 10000>>, <<0, 5000>>, <<0, 12000>>}

BoardGuess ==
    /\ now <= MaxInserts
    /\ \E score \in GuessScores :
          play_guess_the_number("Ann ", StrKey("3"), score[1], score[2])

BoardNumberMemory ==
    /\ now <= MaxInserts
    /\ \E score \in NumberMemoryScores :
          play_number_memory("Ann ", "hard_6", score[1], score[2])

BoardWordMemory ==
    /\ now <= MaxInserts
    /\ \E typed \in WmTyped(15), elapsed \in {5000, 10000} :
          play_word_memory("Ann ", 15, WmWords(15), typed, elapsed)

BoardMathSpeed ==
    /\ now <= MaxInserts
    /\ \E elapsed \in {5000, 10000} : play_math_speed("Ann ", 50, elapsed)

NextBoard ==
    \/ BoardGuess
    \/ BoardNumberMemory
    \/ BoardWordMemory
    \/ BoardMathSpeed

SpecBoard == InitBoard /\ [][NextBoard]_vars

----------------------------------------------------------------------------
(* SpecFull: plays of two games on a ledger one of whose boards already     *)
(* holds TOP_N - 1 or TOP_N entries, each stored by one call and none       *)
(* dropped yet.                                                             *)

\* The i-th entry of a board of game_key that earlier plays filled: in rank
\* order, with ties on the first key and on every key.
FilledEntry(game_key, i) ==
    LET half == TOP_N \div 2
        quarter == TOP_N \div 4
        t == IF i <= quarter \/ (i > half /\ i <= half + quarter)
             THEN 5000 ELSE 10000
    IN IF game_key = "guess_the_number"
       THEN [name |-> "Bob", attempts |-> IF i <= half THEN 1 ELSE 3,
             time |-> t, ts |-> 0]
       ELSE [name |-> "Bob", max_length |-> IF i <= half THEN 7 ELSE 5,
             total_time |-> t, ts |-> 0]

FilledMode(game_key) ==
    IF game_key = "guess_the_number" THEN StrKey("3") ELSE StrKey("hard_6")

FilledLedger(game_key, n) ==
    [BASE_SAVE EXCEPT
        !.leaderboards[game_key] =
            [m \in {FilledMode(game_key)} |->
                [i \in 1..n |-> FilledEntry(game_key, i)]]]

InitFull ==
    \E g \in {"guess_the_number", "number_memory"}, n \in {TOP_N - 1, TOP_N} :
        InitLedger(FilledLedger(g, n))

FullGuess ==
    /\ now <= MaxFull
    /\ \E score \in GuessScores :
          play_guess_the_number("Ann ", StrKey("3"), score[1], score[2])

FullNumberMemory ==
    /\ now <= MaxFull
    /\ \E score \in NumberMemoryScores :
          play_number_memory("Ann ", "hard_6", score[1], score[2])

NextFull == FullGuess \/ FullNumberMemory

SpecFull == InitFull /\ [][NextFull]_vars

----------------------------------------------------------------------------
(* SpecLedger: the ledger operations called one at a time on the empty      *)
(* ledger, with mode keys given as ints and as strs.                        *)

LedgerNames == {"Ann", "Player"}

LedgerEnsure ==
    /\ now <= MaxOps
    /\ \E name \in LedgerNames :
          Finish(ensure_player(State(data, file, notes), name), session,
                 Last("ensure", name, "", StrKey(""), NoEntry, TRUE))

LedgerAward ==
    /\ now <= MaxOps
    /\ \E player \in LedgerNames, ach_key \in {"gtn_first_try", "rx_marathon"} :
          Finish(award_achievement(State(data, file, notes), player, ach_key),
                 session, LastAward(player, ach_key))

LedgerInsert ==
    /\ now <= MaxOps
    /\ \E game_key \in {"guess_the_number", "math_speed"},
          t \in {5000, 10000} :
          LET mode_key == IF game_key = "math_speed" THEN IntKey("50")
                          ELSE StrKey("3")
              entry == IF game_key = "math_speed"
                       THEN [name |-> "Ann", total_time |-> t,
                             problems |-> 50, ts |-> now]
                       ELSE [name |-> "Ann", attempts |-> 3, time |-> t,
                             ts |-> now]
          IN Finish(add_leaderboard_entry(State(data, file, notes), game_key,
                                          mode_key, entry, TOP_N),
                    session,
                    Last("insert", "Ann", game_key, Str(mode_key), entry,
                         TRUE))

NextLedger == LedgerEnsure \/ LedgerAward \/ LedgerInsert

SpecLedger == InitBoard /\ [][NextLedger]_vars

----------------------------------------------------------------------------
(* SpecLoad: the start of the process on each backing document.             *)

LoadBoards ==
    {EmptyDict,
     [m \in {StrKey("5")} |->
         <<[name |-> "Ann", total_time |-> 3000, ts |-> 0]>>]}

LoadPlayers ==
    {EmptyDict,
     [n \in {"Ann"} |->
         [achievements |-> <<"st_pattern_pro">>, games_played |-> 0]]}

LoadDocs ==
    {MissingFile,
     Document("unparseable", {}, "dict", EmptyDict, EmptyDict),
     Document("other", {}, "dict", EmptyDict, EmptyDict)}
    \cup {Document("object", has \ {"leaderboards"}, "dict", EmptyDict,
                   IF "players" \in has THEN pls ELSE EmptyDict) :
              has \in SUBSET {"players"}, pls \in LoadPlayers}
    \cup {Document("object", has \cup {"leaderboards"}, "other", EmptyDict,
                   EmptyDict) : has \in SUBSET {"players"}}
    \cup {Document("object", has \cup {"leaderboards"}, "dict",
                   [g \in games |->
                       IF g = "sequence_tap" THEN lb ELSE EmptyDict],
                   IF "players" \in has THEN pls ELSE EmptyDict) :
              has \in SUBSET {"players"}, pls \in LoadPlayers,
              lb \in LoadBoards,
              games \in SUBSET {"guess_the_number", "sequence_tap",
                                "math_speed", "word_memory"}}

InitLoad ==
    /\ file \in LoadDocs
    /\ data = BASE_SAVE
    /\ session = SessionTracker
    /\ pc = "boot"
    /\ now = 1
    /\ notes = <<>>
    /\ disk = "ok"
    /\ last = NoLast
    /\ calls = EmptyDict
    /\ played = EmptyDict
    /\ run = NewRun

\* data = read_save(), the first statement of main_menu, on the document
\* as it is found.
LoadLedger ==
    /\ pc = "boot"
    /\ LET s == read_save(State(data, file, notes))
       IN /\ file' = s.file
          /\ data' = IF s.raised THEN data ELSE s.data
          /\ pc' = IF s.raised THEN "crashed" ELSE "menu"
    /\ session' = SessionTracker
    /\ last' = Last("read_save", "", "", StrKey(""), NoEntry, TRUE)
    /\ UNCHANGED <<now, notes, disk, calls, played, run>>

SpecLoad == InitLoad /\ [][LoadLedger]_vars

----------------------------------------------------------------------------
(* SpecGrind: one player plays GRINDER_GAMES games of one process run.      *)

\* "cg_grinder_50": "Grinder (50 total games)"
GRINDER_GAMES == 50

\* Correct sequences are typed in the first MaxPlays plays only: each one
\* adds a board entry, and every later choice would double the state space.
GrindSequenceTap ==
    /\ pc = "menu" /\ now <= GRINDER_GAMES
    /\ \E raw_typed \in SeqTyped(5) :
          /\ now <= MaxPlays + 1 \/ raw_typed = "abcdx"
          /\ play_sequence_tap("Alice", 5, SeqExpected(5), raw_typed, 2000)

GrindGibberish ==
    /\ pc = "menu" /\ now <= GRINDER_GAMES
    /\ \E typed_tokens \in GibTyped(5) \ {GibTargets(5)} :
          play_gibberish("Alice", 5, GibTargets(5), typed_tokens, 4000)

NextGrind == Boot \/ GrindSequenceTap \/ GrindGibberish

SpecGrind == Init /\ [][NextGrind]_vars

----------------------------------------------------------------------------
(* SpecStreak: up to MaxStreak plays of Guess the Number and Gibberish      *)
(* Typing under two player names, with exits and new starts of the process  *)
(* in between.                                                              *)

StreakGuess ==
    /\ pc = "menu" /\ now <= MaxStreak
    /\ \E raw \in RawNames :
          play_guess_the_number(raw, StrKey("3"), 3, 8000)

StreakGibberish ==
    /\ pc = "menu" /\ now <= MaxStreak
    /\ \E raw \in RawNames :
          \E typed_tokens \in {GibTargets(5),
                               [GibTargets(5) EXCEPT ![5] = "zaqx"]} :
             play_gibberish(raw, 5, GibTargets(5), typed_tokens, 6000)

NextStreak == Boot \/ StreakGuess \/ StreakGibberish \/ Exit

SpecStreak == Init /\ [][NextStreak]_vars

----------------------------------------------------------------------------
(* SpecDisk: the process of Spec on a disk that may stop taking writes:     *)
(* from then on open(HIGHSCORE_FILE, "w") raises OSError.                   *)

DiskFault ==
    /\ disk = "ok"
    /\ disk' = "failing"
    /\ UNCHANGED <<data, file, session, pc, now, notes, last, calls, played,
                   run>>

NextDisk == Next \/ DiskFault

SpecDisk == Init /\ [][NextDisk]_vars

----------------------------------------------------------------------------
(* Vocabulary of the properties *)

\* The sequence stored for (game, mode): empty when the mode is unseen.
Board(d, g, m) == Get(Get(d.leaderboards, g, EmptyDict), m, <<>>)

Boards(d) ==
    UNION {{<<g, m>> : m \in DOMAIN d.leaderboards[g]} :
              g \in DOMAIN d.leaderboards}

\* The ranking table of the specification: a ranks strictly before b.
RanksBefore(g, a, b) ==
    CASE g = "guess_the_number" ->
            \/ a.attempts < b.attempts
            \/ a.attempts = b.attempts /\ a.time < b.time
      [] g = "number_memory" ->
            \/ a.max_length > b.max_length
            \/ a.max_length = b.max_length /\ a.total_time < b.total_time
      [] g = "word_memory" ->
            \/ a.correct > b.correct
            \/ a.correct = b.correct /\ a.total_time < b.total_time
      [] OTHER -> a.total_time < b.total_time

\* The step just taken called add_leaderboard_entry on (g, m).
Inserted(g, m) ==
    /\ now' = now + 1
    /\ last'.entry # NoEntry
    /\ last'.game = g
    /\ last'.mode = m

----------------------------------------------------------------------------
(* C1.  After each of N calls of add_leaderboard_entry on a (game, mode),   *)
(* the stored sequence has length min(N, TOP_N), TOP_N = 100, and is in     *)
(* non-decreasing order of the mode's sort key.                             *)

C1_LengthAndOrder ==
    \A b \in Boards(data) \cup DOMAIN calls :
        LET lb == Board(data, b[1], b[2])
        IN /\ Len(lb) = Min(Get(calls, b, 0), TOP_N)
           /\ \A i \in 1..(Len(lb) - 1) : ~RanksBefore(b[1], lb[i + 1], lb[i])

\* A board on which more than TOP_N calls were made.
C1_Witness ==
    \E b \in DOMAIN calls :
        calls[b] = TOP_N + 1 /\ Len(Board(data, b[1], b[2])) = TOP_N

----------------------------------------------------------------------------
(* C2.  An insert into a sequence that holds TOP_N entries removes exactly  *)
(* one entry, the one ranked last among the TOP_N + 1 candidates, and keeps *)
(* every other entry in its order; when the new entry ranks last itself the *)
(* stored sequence is unchanged.                                            *)

C2_Step ==
    \A g \in {"guess_the_number", "number_memory"} :
        LET m == FilledMode(g)
            old == Board(data, g, m)
            new == Board(data', g, m)
            e == last'.entry
        IN (Inserted(g, m) /\ Len(old) = TOP_N) =>
              IF \A j \in 1..TOP_N : ~RanksBefore(g, e, old[j])
              THEN new = old
              ELSE /\ \A j \in 1..TOP_N : ~RanksBefore(g, old[TOP_N], old[j])
                   /\ RanksBefore(g, e, old[TOP_N])
                   /\ \E p \in 1..TOP_N :
                         new = SubSeq(old, 1, p - 1) \o <<e>>
                                  \o SubSeq(old, p, TOP_N - 1)

C2_DropsLastRanked == [][C2_Step]_vars

\* The 101st entry was stored in a full board, which dropped another.
C2_Witness ==
    /\ last.entry # NoEntry
    /\ Get(calls, <<last.game, last.mode>>, 0) > TOP_N
    /\ InList(last.entry, Board(data, last.game, last.mode))

----------------------------------------------------------------------------
(* C3.  In the Guess the Number, Number Memory and Word Memory boards two   *)
(* entries of equal primary key stand in ascending order of elapsed/total   *)
(* time; in every board two entries equal on all declared keys stand in the *)
(* order of their insertion (ts is the play that inserted the entry).       *)
(* With C1 this fixes the place of every entry, so the stored sequence is   *)
(* determined by the sequence of inserts.                                   *)

PrimaryKey(g, r) ==
    CASE g = "guess_the_number" -> r.attempts
      [] g = "number_memory" -> r.max_length
      [] g = "word_memory" -> r.correct
      [] OTHER -> r.total_time

SecondaryKey(g, r) ==
    CASE g = "guess_the_number" -> r.time
      [] OTHER -> r.total_time

C3_TieBreak ==
    \A b \in Boards(data) :
        LET g == b[1]
            lb == Board(data, g, b[2])
        IN \A i, j \in 1..Len(lb) :
              (i < j /\ PrimaryKey(g, lb[i]) = PrimaryKey(g, lb[j])) =>
                  /\ SecondaryKey(g, lb[i]) <= SecondaryKey(g, lb[j])
                  /\ SecondaryKey(g, lb[i]) = SecondaryKey(g, lb[j]) =>
                         lb[i].ts < lb[j].ts

\* Scenario 1: {3, 10.0}, {1, 8.0}, {3, 5.0} inserted in this order.
C3_Witness ==
    LET lb == Board(data, "guess_the_number", StrKey("3"))
    IN /\ Len(lb) = 3
       /\ <<lb[1].attempts, lb[1].time, lb[1].ts>> = <<1, 8000, 2>>
       /\ <<lb[2].attempts, lb[2].time, lb[2].ts>> = <<3, 5000, 3>>
       /\ <<lb[3].attempts, lb[3].time, lb[3].ts>> = <<3, 10000, 1>>

----------------------------------------------------------------------------
(* C4.  A Gibberish Typing play whose typed tokens differ from the targets  *)
(* and a Sequence Tap play whose typed sequence differs from the expected   *)
(* one leave every leaderboard sequence and every player's set of           *)
(* achievements as they were (a player without a record holds none); and    *)
(* the boards of these two games change only in a play of that game whose   *)
(* input matched.                                                           *)

AllPlayers(d) == DOMAIN d.players

\* The achievement keys player p holds in ledger d.
AchSet(d, p) ==
    IF p \in DOMAIN d.players
    THEN {d.players[p].achievements[i] :
             i \in 1..Len(d.players[p].achievements)}
    ELSE {}

C4_Step ==
    /\ (/\ now' = now + 1
        /\ last'.op \in {"gibberish", "sequence_tap"}
        /\ ~last'.match)
       => /\ data'.leaderboards = data.leaderboards
          /\ file'.leaderboards = file.leaderboards
          /\ \A p \in AllPlayers(data) \cup AllPlayers(data') :
                AchSet(data', p) = AchSet(data, p)
    /\ \A g \in {"gibberish_typing", "sequence_tap"} :
          (pc = "menu" /\ data'.leaderboards[g] # data.leaderboards[g])
             => now' = now + 1 /\ last'.game = g /\ last'.match

C4_PerfectionGate == [][C4_Step]_vars

\* A failed Gibberish run of a player who holds achievements, made when the
\* Gibberish board already holds an entry.
C4_Witness ==
    /\ last.op = "gibberish"
    /\ ~last.match
    /\ AchSet(data, last.player) # {}
    /\ Board(data, "gibberish_typing", last.mode) # <<>>

----------------------------------------------------------------------------
(* C5.  Awarding a key the player already holds changes nothing: not the    *)
(* ledger, not the lines printed, not the backing document.  A player's     *)
(* achievement list never holds a key twice and no <<player, key>> is       *)
(* printed twice.                                                           *)

Occurrences(x, s) == Cardinality({i \in 1..Len(s) : s[i] = x})

C5_Step ==
    (/\ now' = now + 1
     /\ last'.op = "award"
     /\ last'.key \in AchSet(data, last'.player))
    => data' = data /\ notes' = notes /\ file' = file

C5_NoDuplicates ==
    /\ \A p \in AllPlayers(data) :
          \A k \in AchSet(data, p) :
             Occurrences(k, data.players[p].achievements) = 1
    /\ \A i \in 1..Len(notes) : Occurrences(notes[i], notes) = 1

C5_AwardIdempotent == [][C5_Step]_vars /\ []C5_NoDuplicates

\* An award of a held key, made while the ledger held a record that the
\* backing document did not: a write would have shown.
C5_Witness ==
    /\ last.op = "award"
    /\ last.key \in AchSet(data, last.player)
    /\ file # JsonDump(data)

----------------------------------------------------------------------------
(* C6.  Across every step (plays, views, the exit save, a new start of the  *)
(* process) a player's record stays and its achievement list only grows at  *)
(* its end, in the ledger and in the backing document.                      *)

IsPrefix(s, t) == Len(s) <= Len(t) /\ SubSeq(t, 1, Len(s)) = s

Grows(ps, qs) ==
    \A p \in DOMAIN ps :
        /\ p \in DOMAIN qs
        /\ IsPrefix(ps[p].achievements, qs[p].achievements)
        /\ ps[p].games_played <= qs[p].games_played

C6_Step ==
    /\ Grows(data.players, data'.players)
    /\ Grows(file.players, file'.players)

C6_NeverRemoved == [][C6_Step]_vars

\* A player who holds achievements has played again.
C6_Witness ==
    /\ last.op = "sequence_tap"
    /\ played[last.player] = 2
    /\ AchSet(data, last.player) # {}

----------------------------------------------------------------------------
(* C7.  A player who has completed 50 plays holds cg_grinder_50, exactly    *)
(* once.                                                                    *)

C7_GrinderAt50 ==
    \A p \in DOMAIN played :
        played[p] >= GRINDER_GAMES =>
            /\ p \in DOMAIN data.players
            /\ Occurrences("cg_grinder_50", data.players[p].achievements) = 1

----------------------------------------------------------------------------
(* C8.  After an insert that leaves the new entry at rank 1 the player      *)
(* holds cg_champion; after one that leaves it within the first 10 ranks    *)
(* the player holds cg_top10.                                               *)

C8_ChampionAndTop10 ==
    (pc = "menu" /\ last.op \in PlayOps /\ last.entry # NoEntry) =>
        LET lb == Board(data, last.game, last.mode)
        IN /\ (Len(lb) >= 1 /\ lb[1] = last.entry)
                 => "cg_champion" \in AchSet(data, last.player)
           /\ (\E i \in 1..Min(10, Len(lb)) : lb[i] = last.entry)
                 => "cg_top10" \in AchSet(data, last.player)

----------------------------------------------------------------------------
(* C9.  read_save never fails: on every backing document it returns a       *)
(* ledger with the 7 game keys and a players map, the parts that were       *)
(* present kept and the missing parts empty.                                *)

C9_LoadNeverFails ==
    last.op = "read_save" =>
        /\ pc = "menu"
        /\ GAME_KEYS \subseteq DOMAIN data.leaderboards
        /\ file.kind = "object" =>
              /\ \A g \in DOMAIN data.leaderboards :
                    data.leaderboards[g] = Get(file.leaderboards, g, EmptyDict)
              /\ data.players = file.players
        /\ file.kind # "object" => data = BASE_SAVE

----------------------------------------------------------------------------
(* C10.  write_save followed by read_save gives back the ledger written:    *)
(* the same mode keys, the same entries in the same order, the same player  *)
(* records.                                                                 *)

C10_RoundTrip ==
    LET s == read_save(write_save(State(data, file, notes), data))
    IN ~s.raised /\ s.data = data

\* A ledger with a board whose mode was given as an int, and a player who
\* holds an achievement.
C10_Witness ==
    /\ Board(data, "math_speed", StrKey("50")) # <<>>
    /\ \E p \in AllPlayers(data) : AchSet(data, p) # {}

----------------------------------------------------------------------------
(* C11.  Whenever a play of any of the 7 games has completed and control    *)
(* is back at the main menu, the backing document equals the in-memory      *)
(* ledger, the player records created by ensure_player included.            *)

C11_PersistedAtMenu ==
    (pc = "menu" /\ last.op \in PlayOps) => file = JsonDump(data)

----------------------------------------------------------------------------
(* C12.  At the menu, consecutive_gtn_wins is the number of Guess the       *)
(* Number wins of the current process run (the code has no losing outcome   *)
(* of that game) and perfect_gibberish_streak is the number of perfect      *)
(* Gibberish runs since the last one that was not perfect.  Both are 0      *)
(* after a start of the process, whatever the previous run left in the      *)
(* backing document, and a play adds gt_flawless_streak3 /                  *)
(* gtn_iron_streak_5 to a player's achievements only when the counter has   *)
(* reached 3 / 5.                                                           *)

\* The players whose achievements gain key k in the step.
Gains(k) ==
    {p \in AllPlayers(data') : k \in AchSet(data', p) \ AchSet(data, p)}

C12_Counters ==
    pc = "menu" =>
        /\ session.consecutive_gtn_wins = Len(run.wins)
        /\ session.perfect_gibberish_streak = Len(run.perfects)

C12_Step ==
    /\ (pc \in {"boot", "exited"} /\ pc' = "menu")
          => /\ session'.consecutive_gtn_wins = 0
             /\ session'.perfect_gibberish_streak = 0
    /\ (now' = now + 1 /\ Gains("gt_flawless_streak3") # {})
          => session'.perfect_gibberish_streak >= 3 /\ Len(run'.perfects) >= 3
    /\ (now' = now + 1 /\ Gains("gtn_iron_streak_5") # {})
          => session'.consecutive_gtn_wins >= 5 /\ Len(run'.wins) >= 5

C12_StreakCounters == []C12_Counters /\ [][C12_Step]_vars

\* Two perfect Gibberish runs, then one that is not perfect: the streak is
\* back at 0 at the menu, with an earlier streak achievement on file.
C12_Witness ==
    /\ pc = "menu"
    /\ last.op = "gibberish" /\ ~last.match
    /\ session.perfect_gibberish_streak = 0
    /\ run.plays >= 3
    /\ \E p \in AllPlayers(data) : "gt_perfect_accuracy" \in AchSet(data, p)

----------------------------------------------------------------------------
(* C15.  A play adds gtn_iron_streak_5 to a player's achievements only if   *)
(* that player won the 5 most recent Guess the Number plays of the run,     *)
(* and gt_flawless_streak3 only if that player made the 3 most recent       *)
(* Gibberish runs, all perfect.                                             *)

\* The last n elements of s are all p.
LastAre(s, n, p) ==
    Len(s) >= n /\ \A i \in (Len(s) - n + 1)..Len(s) : s[i] = p

C15_Step ==
    now' = now + 1 =>
        /\ \A p \in Gains("gtn_iron_streak_5") : LastAre(run'.wins, 5, p)
        /\ \A p \in Gains("gt_flawless_streak3") :
              LastAre(run'.perfects, 3, p)

C15_StreakOwner == [][C15_Step]_vars

----------------------------------------------------------------------------
(* C13.  After every completed play, whatever its outcome, the session's    *)
(* total-games-played counter is the number of plays completed in the run   *)
(* and its distinct-games set holds one identifier for each game played.    *)

C13_SessionCounts ==
    (pc = "menu" /\ last.op \in PlayOps) =>
        /\ session.total_games_played = run.plays
        /\ Cardinality(session.games_this_session) = Cardinality(run.games)

----------------------------------------------------------------------------
(* C14.  No error of a ledger operation ends the process: it never stops    *)
(* on an unhandled exception, and when it has ended it was by menu choice   *)
(* 0, with the ledger saved.                                                *)

C14_OnlyExitEnds ==
    /\ pc # "crashed"
    /\ pc = "exited" => last.op = "exit" /\ file = JsonDump(data)

====
